---- MODULE Spec2Model ----
(***************************************************************************)
(* Access-code quota ledger of the DataChart backend.                      *)
(*                                                                         *)
(* The model covers backend/app/models.py (AccessCode, UsageLog) and       *)
(* backend/app/services/access_code_service.py (AccessCodeService).        *)
(*                                                                         *)
(* The store is a transactional relational database: every caller owns a   *)
(* session (database.py get_db, autocommit=False, autoflush=False); a      *)
(* statement reads committed rows; an UPDATE takes the row lock and its    *)
(* effect stays private to the session until COMMIT; a second writer of    *)
(* the same row waits for the lock and then sees the committed row.        *)
(* Store errors and lock time-outs occur in SpecFault only, a second code  *)
(* in SpecTwo, updates of max_usage in SpecAdmin, and the chart handlers   *)
(* of backend/app/api_v1.py in SpecV1.                                     *)
(***************************************************************************)
EXTENDS Integers, FiniteSets, Sequences, Bags, TLC

(* ------------------------------ bounds --------------------------------- *)
NProcs == 2
MaxUsage == 2
MaxTime == 1
MaxSelected == 1

(* ------------------------- values of the program ----------------------- *)
Procs == 1 .. NProcs
Tokens == {"A", "B"}
\* the tokens for which a code is created; the others stay unknown
IssuedTokens == {"A"}
Ids == 1 .. Cardinality(IssuedTokens)

\* expires_at = None (models.py: nullable column)
None == -1
ExpiryValues == {None} \cup (0 .. MaxTime - 1)

\* messages of validate_access_code
V_NOT_FOUND == "code does not exist"            \* "访问码不存在"
V_INACTIVE == "code has been disabled"          \* "访问码已被禁用"
V_EXHAUSTED == "usage count used up"            \* "访问码使用次数已用完"
V_EXPIRED == "code has expired"                 \* "访问码已过期"
V_INVALID == "code invalid"                     \* "访问码无效"
V_VALID == "code valid"                         \* "访问码有效"
\* messages of use_access_code
U_NOT_FOUND == "code does not exist"            \* "访问码不存在"
U_EXHAUSTED == "usage count reached limit"      \* "访问码使用次数已达上限"
U_EXPIRED == "code has expired"                 \* "访问码已过期"
U_INVALID == "code invalid"                     \* "访问码无效"
U_SUCCESS == "used successfully"                \* "使用成功"
\* message of the except branch of validate_access_code
V_FAILED == "validation failed"                 \* "验证失败"
\* message of the except branch of use_access_code: f"使用失败: {str(e)}"
U_FAILED(e) == "usage failed: " \o e

\* str(e) of the exceptions the store raises: an error of the storage at a
\* statement, and the time-out of the wait for a row lock
E_SELECT == "disk I/O error [SQL: SELECT FROM access_codes]"
E_UPDATE == "disk I/O error [SQL: UPDATE access_codes]"
E_LOCKED == "database is locked [SQL: UPDATE access_codes]"
E_INSERT == "disk I/O error [SQL: INSERT INTO usage_logs]"
E_COMMIT == "disk I/O error [COMMIT]"
\* the unique index of access_codes.access_code refuses a second row
E_UNIQUE == "UNIQUE constraint failed: access_codes.access_code"

VARIABLES
  now,           \* datetime.utcnow()
  access_codes,  \* committed table access_codes: id -> row
  usage_logs,    \* committed table usage_logs: bag of rows
  nextId,        \* next primary key of access_codes
  pc,            \* position of each caller in its call
  call,          \* operation and token of each caller
  code_record,   \* the AccessCode object loaded in the caller's session
  pending,       \* uncommitted UPDATE of the caller's session (holds the row lock)
  result,        \* value returned to the caller
  error,         \* str(e) of the exception caught in the caller's call, "" if none
  request        \* the v1 request the caller is serving

vars == <<now, access_codes, usage_logs, nextId, pc, call, code_record, pending, result,
          error, request>>

(* ------------------------------ models.py ------------------------------ *)

\* mutant of is_valid: the expiry time is not looked at
is_valid_NoExpiry(r, t) ==
  IF ~r.is_active THEN FALSE
  ELSE IF r.usage_count >= r.max_usage THEN FALSE
  ELSE TRUE

\* mutant of is_valid: a code counts as used up only above its limit
is_valid_AboveLimit(r, t) ==
  IF ~r.is_active THEN FALSE
  ELSE IF r.usage_count > r.max_usage THEN FALSE
  ELSE IF r.expires_at # None /\ r.expires_at < t THEN FALSE
  ELSE TRUE

\* AccessCode.is_valid
is_valid(r, t) ==
  IF ~r.is_active THEN FALSE
  ELSE IF r.usage_count >= r.max_usage THEN FALSE
  ELSE IF r.expires_at # None /\ r.expires_at < t THEN FALSE
  ELSE TRUE

\* AccessCode.remaining_usage
remaining_usage(r) ==
  IF r.max_usage - r.usage_count > 0 THEN r.max_usage - r.usage_count ELSE 0

\* AccessCode.can_use
can_use(r, t) == is_valid(r, t) /\ r.usage_count < r.max_usage

\* mutant of status: the expiry is tested before the usage count
status_ExpiredFirst(r, t) ==
  IF ~r.is_active THEN "inactive"
  ELSE IF r.expires_at # None /\ r.expires_at < t THEN "expired"
  ELSE IF r.usage_count >= r.max_usage THEN "exhausted"
  ELSE "active"

\* mutant of status: exhausted only above max_usage
status_StrictlyAbove(r, t) ==
  IF ~r.is_active THEN "inactive"
  ELSE IF r.usage_count > r.max_usage THEN "exhausted"
  ELSE IF r.expires_at # None /\ r.expires_at < t THEN "expired"
  ELSE "active"

\* AccessCode.status
status(r, t) ==
  IF ~r.is_active THEN "inactive"
  ELSE IF r.usage_count >= r.max_usage THEN "exhausted"
  ELSE IF r.expires_at # None /\ r.expires_at < t THEN "expired"
  ELSE "active"

\* UsageLog row written by use_access_code
UsageLog(id, ok) == [access_code_id |-> id, success |-> ok]

(* ------------------------ access_code_service.py ----------------------- *)

\* the ORM object of row id: the primary key and the columns
Loaded(id) == [id |-> id] @@ access_codes[id]

\* AccessCodeService.get_access_code_by_code: <<>> is None
get_access_code_by_code(token) ==
  LET found == {i \in DOMAIN access_codes : access_codes[i].access_code = token}
  IN IF found = {} THEN <<>> ELSE <<Loaded(CHOOSE i \in found : TRUE)>>

\* the row lock taken by an uncommitted UPDATE
RowLocked(p, id) == \E q \in Procs \ {p} : pending[q] # <<>> /\ pending[q][1].id = id

\* record: FALSE is None, TRUE is the caller's code_record object
NoResult == [success |-> FALSE, message |-> "", record |-> FALSE]

\* a caller that serves no v1 request. handler: the endpoint; phase: the
\* position in the handler; rendered, charts: whether the rendering succeeded
\* and the number of charts in the response; consumed: the calls of
\* use_access_code; billed: the increments its session committed;
\* status_code, detail, remaining_usage: the HTTP response
NoRequest == [handler |-> "none", phase |-> "none", charts |-> 0, rendered |-> FALSE,
              consumed |-> 0, billed |-> 0, status_code |-> 0, detail |-> "",
              remaining_usage |-> None]

\* details of the responses of the v1 chart handlers
V1_SUCCESS == "chart generated"                      \* "图表生成成功"
V1_NO_DATA == "provide chart data or a file path"    \* "请提供图表数据或文件路径"
V1_NO_FILE == "file does not exist"                  \* "文件不存在"
V1_FAILED == "generation of selected charts failed"  \* "选中图表生成失败: ..."

\* details of the responses of the handlers of main.py and of the file service
L_UPLOADED == "file uploaded"                        \* "文件上传成功"
L_FILE_INVALID == "file validation failed"           \* validation_message
L_FAILED == "chart generation failed"                \* "图表生成失败"
L_GENERATED == "charts generated"                    \* "成功生成 n 个图表"

Return(p, ok, msg, rec) ==
  /\ result' = [result EXCEPT ![p] = [success |-> ok, message |-> msg, record |-> rec]]
  /\ pc' = [pc EXCEPT ![p] = "done"]

\* create_access_code, lines 41-44: the INSERT of a token that a stored code
\* has violates the unique index; the except branch rolls back and re-raises
CreateDuplicate(p, token) ==
  /\ pc[p] = "idle"
  /\ \E i \in DOMAIN access_codes : access_codes[i].access_code = token
  /\ call' = [call EXCEPT ![p] = [op |-> "create", token |-> token]]
  /\ error' = [error EXCEPT ![p] = E_UNIQUE]
  /\ pc' = [pc EXCEPT ![p] = "raised"]
  /\ UNCHANGED <<now, access_codes, usage_logs, nextId, code_record, pending, result>>

\* mutant of create_access_code: access_code has no unique index
create_access_code_NoUniqueIndex(token, m, e) ==
  /\ access_codes' = (nextId :> [access_code |-> token, max_usage |-> m, usage_count |-> 0,
                                 is_active |-> TRUE, expires_at |-> e]) @@ access_codes
  /\ nextId' = nextId + 1
  /\ UNCHANGED <<now, usage_logs, pc, call, code_record, pending, result>>

\* mutant of create_access_code: the column default of is_active is False
create_access_code_Inactive(token, m, e) ==
  /\ \A i \in DOMAIN access_codes : access_codes[i].access_code # token
  /\ access_codes' = (nextId :> [access_code |-> token, max_usage |-> m, usage_count |-> 0,
                                 is_active |-> FALSE, expires_at |-> e]) @@ access_codes
  /\ nextId' = nextId + 1
  /\ UNCHANGED <<now, usage_logs, pc, call, code_record, pending, result>>

\* AccessCodeService.create_access_code
create_access_code(token, m, e) ==
  /\ \A i \in DOMAIN access_codes : access_codes[i].access_code # token
  /\ access_codes' = (nextId :> [access_code |-> token, max_usage |-> m, usage_count |-> 0,
                                 is_active |-> TRUE, expires_at |-> e]) @@ access_codes
  /\ nextId' = nextId + 1
  /\ UNCHANGED <<now, usage_logs, pc, call, code_record, pending, result>>

\* the message validate_access_code returns for a loaded record
ValidateMessage(r, t) ==
  IF ~is_valid(r, t)
  THEN IF status(r, t) = "inactive" THEN V_INACTIVE
       ELSE IF status(r, t) = "exhausted" THEN V_EXHAUSTED
       ELSE IF status(r, t) = "expired" THEN V_EXPIRED
       ELSE V_INVALID
  ELSE V_VALID

\* mutant of validate_access_code: a valid code is billed by the validation
validate_access_code_Billing(p, token) ==
  /\ pc[p] = "idle"
  /\ call' = [call EXCEPT ![p] = [op |-> "validate", token |-> token]]
  /\ LET rec == get_access_code_by_code(token)
     IN /\ code_record' = [code_record EXCEPT ![p] = rec]
        /\ IF rec = <<>>
           THEN /\ Return(p, FALSE, V_NOT_FOUND, FALSE)
                /\ UNCHANGED access_codes
           ELSE /\ Return(p, is_valid(rec[1], now), ValidateMessage(rec[1], now), TRUE)
                /\ access_codes' =
                     IF is_valid(rec[1], now) /\ ~RowLocked(p, rec[1].id)
                     THEN [access_codes EXCEPT ![rec[1].id].usage_count = @ + 1]
                     ELSE access_codes
  /\ UNCHANGED <<now, usage_logs, nextId, pending>>

\* mutant of validate_access_code: an unknown token raises instead of returning
validate_access_code_RaiseNotFound(p, token) ==
  /\ pc[p] = "idle"
  /\ call' = [call EXCEPT ![p] = [op |-> "validate", token |-> token]]
  /\ LET rec == get_access_code_by_code(token)
     IN /\ code_record' = [code_record EXCEPT ![p] = rec]
        /\ IF rec = <<>>
           THEN pc' = [pc EXCEPT ![p] = "raised"] /\ UNCHANGED result
           ELSE Return(p, is_valid(rec[1], now), ValidateMessage(rec[1], now), TRUE)
  /\ UNCHANGED <<now, access_codes, usage_logs, nextId, pending>>

\* AccessCodeService.validate_access_code
validate_access_code(p, token) ==
  /\ pc[p] = "idle"
  /\ call' = [call EXCEPT ![p] = [op |-> "validate", token |-> token]]
  /\ LET rec == get_access_code_by_code(token)
     IN /\ code_record' = [code_record EXCEPT ![p] = rec]
        /\ IF rec = <<>>
           THEN Return(p, FALSE, V_NOT_FOUND, FALSE)
           ELSE Return(p, is_valid(rec[1], now), ValidateMessage(rec[1], now), TRUE)
  /\ UNCHANGED <<now, access_codes, usage_logs, nextId, pending>>

\* use_access_code, lines 89-101: load the record and check its state
UseRead(p, token) ==
  /\ pc[p] = "idle"
  /\ call' = [call EXCEPT ![p] = [op |-> "consume", token |-> token]]
  /\ LET rec == get_access_code_by_code(token)
     IN /\ code_record' = [code_record EXCEPT ![p] = rec]
        /\ IF rec = <<>>
           THEN Return(p, FALSE, U_NOT_FOUND, FALSE)
           ELSE IF ~is_valid(rec[1], now)
           THEN IF status(rec[1], now) = "exhausted" THEN Return(p, FALSE, U_EXHAUSTED, TRUE)
                ELSE IF status(rec[1], now) = "expired" THEN Return(p, FALSE, U_EXPIRED, TRUE)
                ELSE Return(p, FALSE, U_INVALID, TRUE)
           ELSE /\ pc' = [pc EXCEPT ![p] = "use_update"]
                /\ UNCHANGED result
  /\ UNCHANGED <<now, access_codes, usage_logs, nextId, pending>>

\* mutant of UseUpdate: the count is computed from the loaded object and written
\* back (read-increment-write), with no condition evaluated by the store
UseUpdate_ReadIncrementWrite(p) ==
  /\ pc[p] = "use_update"
  /\ LET rec == code_record[p][1]
     IN IF rec.id \in DOMAIN access_codes /\ rec.usage_count < rec.max_usage
        THEN /\ pending' = [pending EXCEPT ![p] =
                    <<[id |-> rec.id, usage_count |-> rec.usage_count + 1]>>]
             /\ pc' = [pc EXCEPT ![p] = "use_commit"]
             /\ UNCHANGED result
        ELSE /\ Return(p, FALSE, U_EXHAUSTED, TRUE)
             /\ UNCHANGED pending
  /\ UNCHANGED <<now, access_codes, usage_logs, nextId, call, code_record>>

\* mutant of UseUpdate: the UsageLog is written before the result of the UPDATE
\* is looked at, so a call that updated no row still records a success
UseUpdate_LogFirst(p) ==
  /\ pc[p] = "use_update"
  /\ LET id == code_record[p][1].id
     IN /\ ~RowLocked(p, id)
        /\ IF id \in DOMAIN access_codes
              /\ access_codes[id].usage_count < access_codes[id].max_usage
           THEN /\ pending' = [pending EXCEPT ![p] =
                       <<[id |-> id, usage_count |-> access_codes[id].usage_count + 1]>>]
                /\ pc' = [pc EXCEPT ![p] = "use_commit"]
                /\ UNCHANGED <<result, usage_logs>>
           ELSE /\ Return(p, FALSE, U_EXHAUSTED, TRUE)
                /\ usage_logs' = usage_logs (+) SetToBag({UsageLog(id, TRUE)})
                /\ UNCHANGED pending
  /\ UNCHANGED <<now, access_codes, nextId, call, code_record>>

\* use_access_code, lines 103-117: UPDATE ... WHERE id = :id AND usage_count < max_usage
UseUpdate(p) ==
  /\ pc[p] = "use_update"
  /\ LET id == code_record[p][1].id
     IN /\ ~RowLocked(p, id)
        /\ IF id \in DOMAIN access_codes
              /\ access_codes[id].usage_count < access_codes[id].max_usage
           THEN /\ pending' = [pending EXCEPT ![p] =
                       <<[id |-> id, usage_count |-> access_codes[id].usage_count + 1]>>]
                /\ pc' = [pc EXCEPT ![p] = "use_commit"]
                /\ UNCHANGED result
           ELSE /\ Return(p, FALSE, U_EXHAUSTED, TRUE)
                /\ UNCHANGED pending
  /\ UNCHANGED <<now, access_codes, usage_logs, nextId, call, code_record>>

\* mutant of UseCommit: the object is incremented once more before the commit
UseCommit_IncrementAgain(p) ==
  /\ pc[p] = "use_commit"
  /\ LET id == pending[p][1].id
         new_usage_count == pending[p][1].usage_count
         refreshed == [Loaded(id) EXCEPT !.usage_count = new_usage_count + 1]
     IN IF new_usage_count > refreshed.max_usage
        THEN /\ Return(p, FALSE, U_EXHAUSTED, TRUE)
             /\ code_record' = [code_record EXCEPT ![p] = <<Loaded(id)>>]
             /\ UNCHANGED <<access_codes, usage_logs>>
        ELSE /\ access_codes' = [access_codes EXCEPT ![id].usage_count = new_usage_count + 1]
             /\ usage_logs' = usage_logs (+) SetToBag({UsageLog(id, TRUE)})
             /\ code_record' = [code_record EXCEPT ![p] = <<refreshed>>]
             /\ Return(p, TRUE, U_SUCCESS, TRUE)
  /\ pending' = [pending EXCEPT ![p] = <<>>]
  /\ UNCHANGED <<now, nextId, call>>

\* mutant of UseCommit: the UPDATE is committed without the UsageLog row
UseCommit_NoLog(p) ==
  /\ pc[p] = "use_commit"
  /\ LET id == pending[p][1].id
         new_usage_count == pending[p][1].usage_count
         refreshed == [Loaded(id) EXCEPT !.usage_count = new_usage_count]
     IN IF new_usage_count > refreshed.max_usage
        THEN /\ Return(p, FALSE, U_EXHAUSTED, TRUE)
             /\ code_record' = [code_record EXCEPT ![p] = <<Loaded(id)>>]
             /\ UNCHANGED <<access_codes, usage_logs>>
        ELSE /\ access_codes' = [access_codes EXCEPT ![id].usage_count = new_usage_count]
             /\ UNCHANGED usage_logs
             /\ code_record' = [code_record EXCEPT ![p] = <<refreshed>>]
             /\ Return(p, TRUE, U_SUCCESS, TRUE)
  /\ pending' = [pending EXCEPT ![p] = <<>>]
  /\ UNCHANGED <<now, nextId, call>>

\* mutant of UseCommit: the UPDATE has no "id = :id" condition and increments
\* every code that has a use left
UseCommit_EveryCode(p) ==
  /\ pc[p] = "use_commit"
  /\ LET id == pending[p][1].id
         new_usage_count == pending[p][1].usage_count
         refreshed == [Loaded(id) EXCEPT !.usage_count = new_usage_count]
     IN /\ access_codes' = [i \in DOMAIN access_codes |->
              IF i = id THEN [access_codes[i] EXCEPT !.usage_count = new_usage_count]
              ELSE IF access_codes[i].usage_count < access_codes[i].max_usage
              THEN [access_codes[i] EXCEPT !.usage_count = @ + 1]
              ELSE access_codes[i]]
        /\ usage_logs' = usage_logs (+) SetToBag({UsageLog(id, TRUE)})
        /\ code_record' = [code_record EXCEPT ![p] = <<refreshed>>]
        /\ Return(p, TRUE, U_SUCCESS, TRUE)
  /\ pending' = [pending EXCEPT ![p] = <<>>]
  /\ UNCHANGED <<now, nextId, call>>

\* use_access_code, lines 119-142: refresh, check, add the UsageLog, commit
UseCommit(p) ==
  /\ pc[p] = "use_commit"
  /\ LET id == pending[p][1].id
         new_usage_count == pending[p][1].usage_count
         refreshed == [Loaded(id) EXCEPT !.usage_count = new_usage_count]
     IN IF new_usage_count > refreshed.max_usage
        THEN /\ Return(p, FALSE, U_EXHAUSTED, TRUE)
             /\ code_record' = [code_record EXCEPT ![p] = <<Loaded(id)>>]
             /\ UNCHANGED <<access_codes, usage_logs>>
        ELSE /\ access_codes' = [access_codes EXCEPT ![id].usage_count = new_usage_count]
             /\ usage_logs' = usage_logs (+) SetToBag({UsageLog(id, TRUE)})
             /\ code_record' = [code_record EXCEPT ![p] = <<refreshed>>]
             /\ Return(p, TRUE, U_SUCCESS, TRUE)
  /\ pending' = [pending EXCEPT ![p] = <<>>]
  /\ UNCHANGED <<now, nextId, call>>

\* validate_access_code, lines 78-80: the query raises; the exception is logged
\* and an invalid result without record is returned
ValidateFault(p, token) ==
  /\ pc[p] = "idle"
  /\ call' = [call EXCEPT ![p] = [op |-> "validate", token |-> token]]
  /\ error' = [error EXCEPT ![p] = E_SELECT]
  /\ Return(p, FALSE, V_FAILED, FALSE)
  /\ UNCHANGED <<now, access_codes, usage_logs, nextId, code_record, pending>>

\* use_access_code, lines 144-147, entered from line 90: the query raises
UseReadFault(p, token) ==
  /\ pc[p] = "idle"
  /\ call' = [call EXCEPT ![p] = [op |-> "consume", token |-> token]]
  /\ error' = [error EXCEPT ![p] = E_SELECT]
  /\ Return(p, FALSE, U_FAILED(E_SELECT), FALSE)
  /\ UNCHANGED <<now, access_codes, usage_logs, nextId, code_record, pending>>

\* mutant of UseUpdateFault: the time-out of the lock wait is reported with the
\* message of a used-up code
UseUpdateFault_AsExhausted(p, e) ==
  /\ pc[p] = "use_update"
  /\ e = E_UPDATE \/ (e = E_LOCKED /\ RowLocked(p, code_record[p][1].id))
  /\ error' = [error EXCEPT ![p] = e]
  /\ Return(p, FALSE, IF e = E_LOCKED THEN U_EXHAUSTED ELSE U_FAILED(e), FALSE)
  /\ UNCHANGED <<now, access_codes, usage_logs, nextId, call, code_record, pending>>

\* use_access_code, lines 144-147, entered from line 112: the UPDATE raises, on
\* an error of the storage or when the wait for the row lock times out
UseUpdateFault(p, e) ==
  /\ pc[p] = "use_update"
  /\ e = E_UPDATE \/ (e = E_LOCKED /\ RowLocked(p, code_record[p][1].id))
  /\ error' = [error EXCEPT ![p] = e]
  /\ Return(p, FALSE, U_FAILED(e), FALSE)
  /\ UNCHANGED <<now, access_codes, usage_logs, nextId, call, code_record, pending>>

\* mutant of UseCommitFault: the except branch does not roll back, and the
\* session commits the UPDATE when it is closed
UseCommitFault_NoRollback(p, e) ==
  /\ pc[p] = "use_commit"
  /\ e \in {E_INSERT, E_COMMIT}
  /\ error' = [error EXCEPT ![p] = e]
  /\ access_codes' = [access_codes EXCEPT ![pending[p][1].id].usage_count =
                        pending[p][1].usage_count]
  /\ pending' = [pending EXCEPT ![p] = <<>>]
  /\ Return(p, FALSE, U_FAILED(e), FALSE)
  /\ UNCHANGED <<now, usage_logs, nextId, call, code_record>>

\* use_access_code, lines 144-147, entered from lines 138-139: the INSERT of the
\* UsageLog or the COMMIT raises after the UPDATE was executed; the rollback
\* discards the UPDATE and the UsageLog, and (False, message, None) is returned
UseCommitFault(p, e) ==
  /\ pc[p] = "use_commit"
  /\ e \in {E_INSERT, E_COMMIT}
  /\ error' = [error EXCEPT ![p] = e]
  /\ pending' = [pending EXCEPT ![p] = <<>>]
  /\ Return(p, FALSE, U_FAILED(e), FALSE)
  /\ UNCHANGED <<now, access_codes, usage_logs, nextId, call, code_record>>

\* AccessCodeUpdate (schemas.py) as the dict of the fields that are set
\* (exclude_unset): the activation toggle, or an expiry at the earliest time
UpdateDicts ==
  [is_active : BOOLEAN] \cup [expires_at : {0}]

\* mutant of update_access_code: a new limit starts a new count
update_access_code_Refill(id, update_dict) ==
  /\ id \in DOMAIN access_codes
  /\ ~\E q \in Procs : pending[q] # <<>> /\ pending[q][1].id = id
  /\ access_codes' = [access_codes EXCEPT ![id] =
        [field \in DOMAIN access_codes[id] |->
            IF field \in DOMAIN update_dict THEN update_dict[field]
            ELSE IF field = "usage_count" /\ "max_usage" \in DOMAIN update_dict THEN 0
            ELSE access_codes[id][field]]]
  /\ access_codes' # access_codes
  /\ UNCHANGED <<now, usage_logs, nextId, pc, call, code_record, pending, result>>

\* mutant of update_access_code: a deactivation also uses the code up
update_access_code_UseUp(id, update_dict) ==
  /\ id \in DOMAIN access_codes
  /\ ~\E q \in Procs : pending[q] # <<>> /\ pending[q][1].id = id
  /\ access_codes' = [access_codes EXCEPT ![id] =
        [field \in DOMAIN access_codes[id] |->
            IF field \in DOMAIN update_dict THEN update_dict[field]
            ELSE IF field = "usage_count" /\ update_dict = [is_active |-> FALSE]
            THEN access_codes[id].max_usage
            ELSE access_codes[id][field]]]
  /\ access_codes' # access_codes
  /\ UNCHANGED <<now, usage_logs, nextId, pc, call, code_record, pending, result>>

\* AccessCodeService.update_access_code: setattr of every field of the dict and
\* commit; the UPDATE it flushes waits for the row lock, and an update that
\* changes no field writes nothing
update_access_code(id, update_dict) ==
  /\ id \in DOMAIN access_codes
  /\ ~\E q \in Procs : pending[q] # <<>> /\ pending[q][1].id = id
  /\ access_codes' = [access_codes EXCEPT ![id] =
        [field \in DOMAIN access_codes[id] |->
            IF field \in DOMAIN update_dict THEN update_dict[field]
            ELSE access_codes[id][field]]]
  /\ access_codes' # access_codes
  /\ UNCHANGED <<now, usage_logs, nextId, pc, call, code_record, pending, result>>

\* the rows of usage_logs that reference code id: the collection
\* AccessCode.usage_logs as a session loads it
LogsFor(id) ==
  [row \in {x \in DOMAIN usage_logs : x.access_code_id = id} |-> usage_logs[row]]

\* delete_access_code, lines 183-188: load the code by id; db.delete cascades
\* over the relationship usage_logs ("all, delete-orphan") and loads the
\* rows it will delete; nothing is written before the commit
DeleteRead(p, id) ==
  /\ pc[p] = "idle"
  /\ call' = [call EXCEPT ![p] = [op |-> "delete", token |-> "A"]]
  /\ IF id \notin DOMAIN access_codes
     THEN /\ Return(p, FALSE, "", FALSE)
          /\ UNCHANGED code_record
     ELSE /\ code_record' = [code_record EXCEPT ![p] =
                <<Loaded(id) @@ [usage_logs |-> LogsFor(id)]>>]
          /\ pc' = [pc EXCEPT ![p] = "delete_commit"]
          /\ UNCHANGED result
  /\ UNCHANGED <<now, access_codes, usage_logs, nextId, pending>>

\* delete_access_code, lines 189-197: the commit flushes one DELETE for every
\* loaded usage log and the DELETE of the code, which waits for the row lock.
\* A usage log committed since the load is not among them: a store that
\* enforces the foreign key refuses the DELETE of the code (rollback, raise),
\* SQLite as database.py configures it does not, and the row stays. A code
\* that is gone makes the DELETE match no row (rollback, raise)
DeleteCommit(p, enforce_fk) ==
  /\ pc[p] = "delete_commit"
  /\ LET id == code_record[p][1].id
         loaded == code_record[p][1].usage_logs
     IN /\ ~RowLocked(p, id)
        /\ IF id \notin DOMAIN access_codes \/ (enforce_fk /\ LogsFor(id) # loaded)
           THEN /\ pc' = [pc EXCEPT ![p] = "raised"]
                /\ UNCHANGED <<access_codes, usage_logs, result>>
           ELSE /\ usage_logs' = usage_logs (-) loaded
                /\ access_codes' = [i \in DOMAIN access_codes \ {id} |-> access_codes[i]]
                /\ Return(p, TRUE, "", FALSE)
  /\ UNCHANGED <<now, nextId, call, code_record, pending>>

\* the response of a handler: HTTPException(status_code, detail) or 200
Respond(p, code, detail) ==
  [request[p] EXCEPT !.phase = "responded", !.status_code = code, !.detail = detail]

\* api_v1.generate_chart, lines 427-448: validate, then render from the data of
\* the request; chart_generator.generate_chart catches every exception and
\* returns success=False, and the handler does not look at that field
GenerateChartBegin(p, token, has_data, chart_ok) ==
  /\ request[p].handler = "none"
  /\ validate_access_code(p, token)
  /\ LET h == [request[p] EXCEPT !.handler = "generate_chart"]
         rec == get_access_code_by_code(token)
     IN request' = [request EXCEPT ![p] =
          IF rec = <<>> THEN [Respond(p, 400, V_NOT_FOUND) EXCEPT !.handler = h.handler]
          ELSE IF ~is_valid(rec[1], now)
          THEN [Respond(p, 400, ValidateMessage(rec[1], now)) EXCEPT !.handler = h.handler]
          ELSE IF ~has_data
          THEN [Respond(p, 400, V1_NO_DATA) EXCEPT !.handler = h.handler]
          ELSE [h EXCEPT !.phase = "rendered", !.rendered = chart_ok,
                         !.charts = IF chart_ok THEN 1 ELSE 0]]
  /\ UNCHANGED error

\* api_v1.generate_selected_charts, lines 524-568: validate, check the file,
\* then render every selected type. The handler passes color_scheme to
\* chart_generator.generate_chart, which has no such parameter: the first
\* call raises TypeError, which leaves the loop and ends in the response 500
\* of the except branch; only an empty selection reaches the end of the loop
SelectedChartsBegin(p, token, file_exists, selected) ==
  /\ request[p].handler = "none"
  /\ validate_access_code(p, token)
  /\ LET h == [request[p] EXCEPT !.handler = "generate_selected_charts"]
         rec == get_access_code_by_code(token)
     IN request' = [request EXCEPT ![p] =
          IF rec = <<>> THEN [Respond(p, 400, V_NOT_FOUND) EXCEPT !.handler = h.handler]
          ELSE IF ~is_valid(rec[1], now)
          THEN [Respond(p, 400, ValidateMessage(rec[1], now)) EXCEPT !.handler = h.handler]
          ELSE IF ~file_exists
          THEN [Respond(p, 404, V1_NO_FILE) EXCEPT !.handler = h.handler]
          ELSE IF selected > 0
          THEN [Respond(p, 500, V1_FAILED) EXCEPT !.handler = h.handler]
          ELSE [h EXCEPT !.phase = "rendered", !.rendered = FALSE, !.charts = 0]]
  /\ UNCHANGED error

\* use_access_code, lines 89-101, called in the session that ran
\* validate_access_code: the query finds the row, and the session returns the
\* object it already holds with the attributes loaded by the validation
UseReadInSession(p) ==
  /\ pc[p] = "done" /\ call[p].op = "validate"
  /\ call' = [call EXCEPT ![p].op = "consume"]
  /\ LET rec == IF get_access_code_by_code(call[p].token) = <<>> THEN <<>>
                ELSE code_record[p]
     IN /\ code_record' = [code_record EXCEPT ![p] = rec]
        /\ IF rec = <<>>
           THEN Return(p, FALSE, U_NOT_FOUND, FALSE)
           ELSE IF ~is_valid(rec[1], now)
           THEN IF status(rec[1], now) = "exhausted" THEN Return(p, FALSE, U_EXHAUSTED, TRUE)
                ELSE IF status(rec[1], now) = "expired" THEN Return(p, FALSE, U_EXPIRED, TRUE)
                ELSE Return(p, FALSE, U_INVALID, TRUE)
           ELSE /\ pc' = [pc EXCEPT ![p] = "use_update"]
                /\ result' = [result EXCEPT ![p] = NoResult]
  /\ UNCHANGED <<now, access_codes, usage_logs, nextId, pending>>

\* api_v1.generate_chart line 451, generate_selected_charts line 571: the
\* handler calls use_access_code after the rendering
HandlerConsume(p) ==
  /\ request[p].phase = "rendered"
  /\ UseReadInSession(p)
  /\ request' = [request EXCEPT ![p].phase = "consuming", ![p].consumed = @ + 1]
  /\ UNCHANGED error

\* mutant of HandlerUseUpdate: the new count is computed from the object that
\* the validation loaded and written back
HandlerUseUpdate_FromLoadedObject(p) ==
  /\ request[p].phase = "consuming"
  /\ UseUpdate_ReadIncrementWrite(p)
  /\ UNCHANGED <<error, request>>

\* the UPDATE and the commit of the handler's use_access_code call
HandlerUseUpdate(p) ==
  /\ request[p].phase = "consuming"
  /\ UseUpdate(p)
  /\ UNCHANGED <<error, request>>
HandlerUseCommit(p) ==
  /\ request[p].phase = "consuming"
  /\ UseCommit(p)
  /\ LET id == pending[p][1].id
     IN request' = [request EXCEPT ![p].billed =
          @ + access_codes'[id].usage_count - access_codes[id].usage_count]
  /\ UNCHANGED error

\* mutant of HandlerRespond: the result of use_access_code is not looked at
HandlerRespond_AlwaysSuccess(p) ==
  /\ request[p].phase = "consuming" /\ pc[p] = "done"
  /\ request' = [request EXCEPT ![p] = Respond(p, 200, V1_SUCCESS)]
  /\ UNCHANGED <<now, access_codes, usage_logs, nextId, pc, call, code_record, pending,
                 result, error>>

\* mutant of HandlerRespond: after a successful use_access_code the handler
\* calls it a second time before it responds
HandlerRespond_ConsumeTwice(p) ==
  /\ request[p].phase = "consuming" /\ pc[p] = "done"
  /\ IF result[p].success /\ request[p].consumed < 2
     THEN /\ request' = [request EXCEPT ![p].phase = "rendered"]
          /\ call' = [call EXCEPT ![p].op = "validate"]
     ELSE /\ request' = [request EXCEPT ![p] =
                IF ~result[p].success THEN Respond(p, 400, result[p].message)
                ELSE Respond(p, 200, V1_SUCCESS)]
          /\ UNCHANGED call
  /\ UNCHANGED <<now, access_codes, usage_logs, nextId, pc, code_record, pending,
                 result, error>>

\* api_v1.generate_chart lines 452-463, generate_selected_charts lines 572-582:
\* HTTPException(400, use_message) when use_access_code failed, else the
\* success response with the charts and code_record.remaining_usage - 1, read
\* from the object of the session, which use_access_code has refreshed
HandlerRespond(p) ==
  /\ request[p].phase = "consuming" /\ pc[p] = "done"
  /\ request' = [request EXCEPT ![p] =
        IF ~result[p].success THEN Respond(p, 400, result[p].message)
        ELSE [Respond(p, 200, V1_SUCCESS) EXCEPT
                !.remaining_usage = remaining_usage(code_record[p][1]) - 1]]
  /\ UNCHANGED <<now, access_codes, usage_logs, nextId, pc, call, code_record, pending,
                 result, error>>

(* ------------------------ file_service.py, main.py --------------------- *)

\* FileService.save_uploaded_file: validate_access_code in the session of the
\* request (a session that holds the object keeps the attributes it loaded),
\* can_use, the file is written and validated, then a UsageLog with
\* success=True is added and committed; the commit expires the object, and
\* code_record.remaining_usage of the returned dictionary loads it again
save_uploaded_file(p, token, file_ok) ==
  /\ call' = [call EXCEPT ![p] = [op |-> "upload", token |-> token]]
  /\ LET found == get_access_code_by_code(token)
         rec == IF found # <<>> /\ code_record[p] # <<>> THEN code_record[p] ELSE found
     IN IF rec = <<>>
        THEN /\ Return(p, FALSE, V_NOT_FOUND, FALSE)
             /\ UNCHANGED <<usage_logs, code_record>>
        ELSE IF ~is_valid(rec[1], now)
        THEN /\ Return(p, FALSE, ValidateMessage(rec[1], now), TRUE)
             /\ code_record' = [code_record EXCEPT ![p] = rec]
             /\ UNCHANGED usage_logs
        ELSE IF ~can_use(rec[1], now)
        THEN /\ Return(p, FALSE, V_EXHAUSTED, TRUE)
             /\ code_record' = [code_record EXCEPT ![p] = rec]
             /\ UNCHANGED usage_logs
        ELSE IF ~file_ok
        THEN /\ Return(p, FALSE, L_FILE_INVALID, TRUE)
             /\ code_record' = [code_record EXCEPT ![p] = rec]
             /\ UNCHANGED usage_logs
        ELSE /\ usage_logs' = usage_logs (+) SetToBag({UsageLog(rec[1].id, TRUE)})
             /\ code_record' = [code_record EXCEPT ![p] = <<Loaded(rec[1].id)>>]
             /\ Return(p, TRUE, L_UPLOADED, TRUE)
  /\ UNCHANGED <<now, access_codes, nextId, pending>>

\* main.upload_file, lines 345-368: /api/upload-file saves the file and answers
\* with the remaining_usage of the dictionary
UploadFileRequest(p, token, file_ok) ==
  /\ request[p].handler = "none" /\ pc[p] = "idle"
  /\ save_uploaded_file(p, token, file_ok)
  /\ request' = [request EXCEPT ![p] =
        [(IF result'[p].success THEN Respond(p, 200, L_UPLOADED)
          ELSE Respond(p, 400, result'[p].message))
         EXCEPT !.handler = "/api/upload-file",
                !.remaining_usage = IF result'[p].success
                                    THEN remaining_usage(code_record'[p][1]) ELSE None]]
  /\ UNCHANGED error

\* the checks that open the chart handlers of main.py (lines 448-456, 532-540,
\* 663-671): validate_access_code, then can_use on the loaded object
LegacyRefusal(rec) ==
  IF rec = <<>> THEN V_NOT_FOUND
  ELSE IF ~is_valid(rec[1], now) THEN ValidateMessage(rec[1], now)
  ELSE IF ~can_use(rec[1], now) THEN U_EXHAUSTED
  ELSE ""

\* main.generate_chart, lines 445-459: /api/generate-chart validates, checks
\* can_use and awaits the upload of the file
LegacyGenerateChartBegin(p, token) ==
  /\ request[p].handler = "none"
  /\ validate_access_code(p, token)
  /\ LET h == "/api/generate-chart"
         rec == get_access_code_by_code(token)
     IN request' = [request EXCEPT ![p] =
          IF LegacyRefusal(rec) # ""
          THEN [Respond(p, 400, LegacyRefusal(rec)) EXCEPT !.handler = h]
          ELSE [request[p] EXCEPT !.handler = h, !.phase = "uploading"]]
  /\ UNCHANGED error

\* main.generate_chart, lines 459-488: the upload in the session of the
\* request, then the parsing and the rendering
LegacyUploadAndRender(p, file_ok, chart_ok) ==
  /\ request[p].phase = "uploading"
  /\ save_uploaded_file(p, call[p].token, file_ok)
  /\ request' = [request EXCEPT ![p] =
        IF ~result'[p].success THEN Respond(p, 400, result'[p].message)
        ELSE IF ~chart_ok THEN Respond(p, 500, L_FAILED)
        ELSE [request[p] EXCEPT !.phase = "billing", !.rendered = TRUE, !.charts = 1]]
  /\ UNCHANGED error

\* main.generate_chart_from_data, lines 531-553: /api/generate-chart-from-data
\* validates, checks can_use and renders the data of the request
GenerateChartFromDataBegin(p, token, chart_ok) ==
  /\ request[p].handler = "none"
  /\ validate_access_code(p, token)
  /\ LET h == "/api/generate-chart-from-data"
         rec == get_access_code_by_code(token)
     IN request' = [request EXCEPT ![p] =
          IF LegacyRefusal(rec) # ""
          THEN [Respond(p, 400, LegacyRefusal(rec)) EXCEPT !.handler = h]
          ELSE IF ~chart_ok THEN [Respond(p, 500, L_FAILED) EXCEPT !.handler = h]
          ELSE [request[p] EXCEPT !.handler = h, !.phase = "billing", !.rendered = TRUE,
                                  !.charts = 1]]
  /\ UNCHANGED error

\* main.generate_selected_charts, lines 662-740: /api/generate-selected-charts
\* validates, checks can_use and the file, and renders the selected types, of
\* which `generated` succeed; with no chart it answers without billing
LegacySelectedChartsBegin(p, token, file_exists, generated) ==
  /\ request[p].handler = "none"
  /\ validate_access_code(p, token)
  /\ LET h == "/api/generate-selected-charts"
         rec == get_access_code_by_code(token)
     IN request' = [request EXCEPT ![p] =
          IF LegacyRefusal(rec) # ""
          THEN [Respond(p, 400, LegacyRefusal(rec)) EXCEPT !.handler = h]
          ELSE IF ~file_exists THEN [Respond(p, 404, V1_NO_FILE) EXCEPT !.handler = h]
          ELSE IF generated = 0
          THEN [Respond(p, 200, L_GENERATED) EXCEPT
                  !.handler = h, !.remaining_usage = remaining_usage(rec[1])]
          ELSE [request[p] EXCEPT !.handler = h, !.phase = "billing", !.rendered = TRUE,
                                  !.charts = generated]]
  /\ UNCHANGED error

\* main.py lines 490-517, 555-571, 723-740: a UsageLog with success=True is
\* added, increment_usage adds one to the usage_count of the loaded object when
\* can_use() holds (its result is not looked at), and the commit writes the log
\* and the attribute: UPDATE access_codes SET usage_count = <value> WHERE id.
\* The response reads remaining_usage from the object loaded after the commit
LegacyBill(p) ==
  /\ request[p].phase = "billing"
  /\ LET rec == code_record[p][1]
         id == rec.id
         incremented == can_use(rec, now)
         gone == id \notin DOMAIN access_codes
     IN /\ ~RowLocked(p, id)
        /\ IF gone /\ incremented
           THEN /\ request' = [request EXCEPT ![p] = Respond(p, 500, L_FAILED)]
                /\ UNCHANGED <<access_codes, usage_logs, code_record>>
           ELSE /\ usage_logs' = usage_logs (+) SetToBag({UsageLog(id, TRUE)})
                /\ access_codes' =
                     IF incremented
                     THEN [access_codes EXCEPT ![id].usage_count = rec.usage_count + 1]
                     ELSE access_codes
                /\ IF gone
                   THEN /\ request' = [request EXCEPT ![p] = Respond(p, 500, L_FAILED)]
                        /\ UNCHANGED code_record
                   ELSE /\ code_record' = [code_record EXCEPT ![p] =
                              <<[id |-> id] @@ access_codes'[id]>>]
                        /\ request' = [request EXCEPT ![p] =
                              [Respond(p, 200, IF request[p].handler =
                                                  "/api/generate-selected-charts"
                                               THEN L_GENERATED ELSE V1_SUCCESS)
                               EXCEPT !.billed = IF incremented THEN 1 ELSE 0,
                                      !.remaining_usage =
                                         remaining_usage(access_codes'[id])]]
  /\ UNCHANGED <<now, nextId, pc, call, pending, result, error>>

\* mutant of AbandonConsume: closing the session commits the open transaction
AbandonConsume_Commits(p) ==
  /\ pc[p] = "use_commit"
  /\ access_codes' = [access_codes EXCEPT
                        ![pending[p][1].id].usage_count = pending[p][1].usage_count]
  /\ pending' = [pending EXCEPT ![p] = <<>>]
  /\ code_record' = [code_record EXCEPT ![p] = <<>>]
  /\ pc' = [pc EXCEPT ![p] = "closed"]
  /\ UNCHANGED <<now, usage_logs, nextId, call, result>>

\* get_db, lines 52-57: the request is cancelled between the UPDATE and the
\* commit of use_access_code; db.close() in the finally branch ends the open
\* transaction with a rollback, which undoes the UPDATE and releases the row
AbandonConsume(p) ==
  /\ pc[p] = "use_commit"
  /\ pending' = [pending EXCEPT ![p] = <<>>]
  /\ code_record' = [code_record EXCEPT ![p] = <<>>]
  /\ pc' = [pc EXCEPT ![p] = "closed"]
  /\ UNCHANGED <<now, access_codes, usage_logs, nextId, call, result>>

\* get_db: the session of a finished call is closed, and the caller's next
\* call runs in a new session
NewSession(p) ==
  /\ pc[p] = "done"
  /\ pc' = [pc EXCEPT ![p] = "idle"]
  /\ call' = [call EXCEPT ![p] = [op |-> "none", token |-> "A"]]
  /\ code_record' = [code_record EXCEPT ![p] = <<>>]
  /\ result' = [result EXCEPT ![p] = NoResult]
  /\ error' = [error EXCEPT ![p] = ""]
  /\ UNCHANGED <<now, access_codes, usage_logs, nextId, pending>>

\* the clock advances
Tick ==
  /\ now < MaxTime
  /\ now' = now + 1
  /\ UNCHANGED <<access_codes, usage_logs, nextId, pc, call, code_record, pending, result,
                 error, request>>

(* --------------------------- specifications ---------------------------- *)

Init ==
  /\ now = 0
  /\ access_codes = <<>>
  /\ usage_logs = EmptyBag
  /\ nextId = 1
  /\ pc = [p \in Procs |-> "idle"]
  /\ call = [p \in Procs |-> [op |-> "none", token |-> "A"]]
  /\ code_record = [p \in Procs |-> <<>>]
  /\ pending = [p \in Procs |-> <<>>]
  /\ result = [p \in Procs |-> NoResult]
  /\ error = [p \in Procs |-> ""]
  /\ request = [p \in Procs |-> NoRequest]

\* no call is in progress
Quiet == \A p \in Procs : pc[p] \in {"idle", "done"}

CreateAccessCode ==
  /\ nextId \in Ids
  /\ \E token \in IssuedTokens, m \in 1 .. MaxUsage, e \in ExpiryValues :
        create_access_code(token, m, e)
  /\ UNCHANGED <<error, request>>
UpdateAccessCode ==
  /\ \E id \in Ids, d \in UpdateDicts : update_access_code(id, d)
  /\ UNCHANGED <<error, request>>
Validate ==
  /\ \E p \in Procs, token \in Tokens : validate_access_code(p, token)
  /\ UNCHANGED <<error, request>>
UseStart ==
  /\ \E p \in Procs, token \in Tokens : UseRead(p, token)
  /\ UNCHANGED <<error, request>>
UseExecute ==
  /\ \E p \in Procs : UseUpdate(p)
  /\ UNCHANGED <<error, request>>
UseFinish ==
  /\ \E p \in Procs : UseCommit(p)
  /\ UNCHANGED <<error, request>>

\* callers of the service run concurrently, next to administrative updates
Next ==
  \/ CreateAccessCode
  \/ UpdateAccessCode
  \/ Tick
  \/ Validate
  \/ UseStart
  \/ UseExecute
  \/ UseFinish

Spec == Init /\ [][Next]_vars

\* callers of the service run concurrently; no administrative update
NextConsume ==
  \/ CreateAccessCode
  \/ Tick
  \/ Validate
  \/ UseStart
  \/ UseExecute
  \/ UseFinish

SpecConsume == Init /\ [][NextConsume]_vars

\* calls run one after the other (test_pessimistic_lock.py); no administrative update
NextSeq ==
  \/ Quiet /\ CreateAccessCode
  \/ Quiet /\ Tick
  \/ Quiet /\ Validate
  \/ Quiet /\ UseStart
  \/ UseExecute
  \/ UseFinish

SpecSeq == Init /\ [][NextSeq]_vars

\* two codes are created, and either can be deactivated and reactivated
TwoIds == 1 .. Cardinality(Tokens)
CreateEither ==
  /\ nextId \in TwoIds
  /\ \E token \in Tokens, m \in 1 .. MaxUsage : create_access_code(token, m, None)
  /\ UNCHANGED <<error, request>>
UpdateEither ==
  /\ \E id \in TwoIds, d \in [is_active : BOOLEAN] : update_access_code(id, d)
  /\ UNCHANGED <<error, request>>

\* callers consume two codes concurrently, next to administrative updates
NextTwo ==
  \/ CreateEither
  \/ UpdateEither
  \/ UseStart
  \/ UseExecute
  \/ UseFinish

SpecTwo == Init /\ [][NextTwo]_vars

\* AccessCodeUpdate with the limit: max_usage is validated as gt=0 only
AdminUpdateDicts == [max_usage : 1 .. MaxUsage] \cup [is_active : BOOLEAN]
UpdateByAdmin ==
  /\ \E id \in Ids, d \in AdminUpdateDicts : update_access_code(id, d)
  /\ UNCHANGED <<error, request>>

CallAgain ==
  /\ \E p \in Procs : NewSession(p)
  /\ UNCHANGED request

\* at most one caller still holds the result of a finished call
FewResultsHeld == Cardinality({q \in Procs : pc[q] = "done"}) <= 1

\* callers consume, call after call, while the administrator changes the limit
\* and the activation of the code at any moment of a call
NextAdmin ==
  \/ CreateAccessCode
  \/ UpdateByAdmin
  \/ Tick
  \/ Quiet /\ CallAgain
  \/ Quiet /\ FewResultsHeld /\ UseStart
  \/ UseExecute
  \/ UseFinish

SpecAdmin == Init /\ [][NextAdmin]_vars

\* the administrator creates two codes and changes the limit and the activation
\* of the first at any moment of the consume calls, which are made one after
\* the other
NextAdminTwo ==
  \/ CreateEither
  \/ UpdateByAdmin
  \/ Quiet /\ UseStart
  \/ UseExecute
  \/ UseFinish

SpecAdminTwo == Init /\ [][NextAdminTwo]_vars

GenerateChart ==
  \E p \in Procs, token \in Tokens, has_data \in BOOLEAN, chart_ok \in BOOLEAN :
    GenerateChartBegin(p, token, has_data, chart_ok)
GenerateSelectedCharts ==
  \E p \in Procs, token \in Tokens, file_exists \in BOOLEAN, selected \in 0 .. MaxSelected :
    SelectedChartsBegin(p, token, file_exists, selected)
ConsumeAfterRender == \E p \in Procs : HandlerConsume(p)
ConsumeExecute == \E p \in Procs : HandlerUseUpdate(p)
ConsumeFinish == \E p \in Procs : HandlerUseCommit(p)
SendResponse == \E p \in Procs : HandlerRespond(p)

\* the v1 chart endpoints serve concurrent requests
NextV1 ==
  \/ CreateAccessCode
  \/ Tick
  \/ GenerateChart
  \/ GenerateSelectedCharts
  \/ ConsumeAfterRender
  \/ ConsumeExecute
  \/ ConsumeFinish
  \/ SendResponse

SpecV1 == Init /\ [][NextV1]_vars

DeleteStart ==
  /\ \E p \in Procs, id \in Ids : DeleteRead(p, id)
  /\ UNCHANGED <<error, request>>
DeleteFinish ==
  /\ \E p \in Procs, enforce_fk \in BOOLEAN : DeleteCommit(p, enforce_fk)
  /\ UNCHANGED <<error, request>>

\* callers consume the code while the administrator deletes it
NextDelete ==
  \/ CreateAccessCode
  \/ UseStart
  \/ UseExecute
  \/ UseFinish
  \/ DeleteStart
  \/ DeleteFinish

SpecDelete == Init /\ [][NextDelete]_vars

CreateAgain ==
  /\ \E p \in Procs, token \in Tokens : CreateDuplicate(p, token)
  /\ UNCHANGED request

\* codes are created, also with tokens that exist, while callers consume them
NextCreate ==
  \/ CreateEither
  \/ CreateAgain
  \/ UseStart
  \/ UseExecute
  \/ UseFinish

SpecCreate == Init /\ [][NextCreate]_vars

UploadFile ==
  \E p \in Procs, token \in Tokens, file_ok \in BOOLEAN : UploadFileRequest(p, token, file_ok)
LegacyGenerateChart ==
  \E p \in Procs, token \in Tokens : LegacyGenerateChartBegin(p, token)
LegacyUpload ==
  \E p \in Procs, file_ok \in BOOLEAN, chart_ok \in BOOLEAN :
    LegacyUploadAndRender(p, file_ok, chart_ok)
GenerateChartFromData ==
  \E p \in Procs, token \in Tokens, chart_ok \in BOOLEAN :
    GenerateChartFromDataBegin(p, token, chart_ok)
LegacyGenerateSelectedCharts ==
  \E p \in Procs, token \in Tokens, file_exists \in BOOLEAN, generated \in 0 .. MaxSelected :
    LegacySelectedChartsBegin(p, token, file_exists, generated)
LegacyBilling == \E p \in Procs : LegacyBill(p)

\* the endpoints of main.py serve concurrent requests
NextLegacy ==
  \/ CreateAccessCode
  \/ Tick
  \/ UploadFile
  \/ LegacyGenerateChart
  \/ LegacyUpload
  \/ GenerateChartFromData
  \/ LegacyGenerateSelectedCharts
  \/ LegacyBilling

SpecLegacy == Init /\ [][NextLegacy]_vars

Abandon ==
  /\ \E p \in Procs : AbandonConsume(p)
  /\ UNCHANGED <<error, request>>

\* callers validate and consume concurrently, and a consume call can be
\* abandoned between its UPDATE and its commit
NextAbandon ==
  \/ CreateAccessCode
  \/ Validate
  \/ UseStart
  \/ UseExecute
  \/ UseFinish
  \/ Abandon

SpecAbandon == Init /\ [][NextAbandon]_vars

\* one stored code with any values of the columns that the operations can
\* leave behind (update_access_code deactivates and lowers max_usage), at any time
InitModels ==
  /\ now \in 0 .. MaxTime
  /\ access_codes \in [{1} -> [access_code : {"A"}, max_usage : 1 .. MaxUsage,
                                usage_count : 0 .. MaxUsage, is_active : BOOLEAN,
                                expires_at : ExpiryValues]]
  /\ usage_logs = EmptyBag
  /\ nextId = 2
  /\ pc = [p \in Procs |-> "idle"]
  /\ call = [p \in Procs |-> [op |-> "none", token |-> "A"]]
  /\ code_record = [p \in Procs |-> <<>>]
  /\ pending = [p \in Procs |-> <<>>]
  /\ result = [p \in Procs |-> NoResult]
  /\ error = [p \in Procs |-> ""]
  /\ request = [p \in Procs |-> NoRequest]

\* is_valid, status and can_use are applied to the code by validations,
\* consumes and uploads
NextModels ==
  \/ Validate
  \/ UseStart
  \/ UseExecute
  \/ UseFinish
  \/ UploadFile

SpecModels == InitModels /\ [][NextModels]_vars

ValidateFail ==
  /\ \E p \in Procs, token \in Tokens : ValidateFault(p, token)
  /\ UNCHANGED request
UseStartFail ==
  /\ \E p \in Procs, token \in Tokens : UseReadFault(p, token)
  /\ UNCHANGED request
UseExecuteFail ==
  /\ \E p \in Procs, e \in {E_UPDATE, E_LOCKED} : UseUpdateFault(p, e)
  /\ UNCHANGED request
UseFinishFail ==
  /\ \E p \in Procs, e \in {E_INSERT, E_COMMIT} : UseCommitFault(p, e)
  /\ UNCHANGED request

\* callers of the service run concurrently on a store whose statements can fail
NextFault ==
  \/ CreateAccessCode
  \/ Validate
  \/ ValidateFail
  \/ UseStart
  \/ UseStartFail
  \/ UseExecute
  \/ UseExecuteFail
  \/ UseFinish
  \/ UseFinishFail

SpecFault == Init /\ [][NextFault]_vars

\* callers of the service run concurrently on a store whose statements can
\* fail, next to administrative updates
NextFaultAll ==
  \/ CreateAccessCode
  \/ UpdateAccessCode
  \/ Tick
  \/ Validate
  \/ ValidateFail
  \/ UseStart
  \/ UseStartFail
  \/ UseExecute
  \/ UseExecuteFail
  \/ UseFinish
  \/ UseFinishFail

SpecFaultAll == Init /\ [][NextFaultAll]_vars

\* the next statement of caller p's use_access_code call completes: the UPDATE
\* once the row lock is free, the time-out of the wait while it is held, the
\* commit
Proceed(p) ==
  \/ UseUpdate(p) /\ UNCHANGED <<error, request>>
  \/ UseUpdateFault(p, E_LOCKED) /\ UNCHANGED request
  \/ UseCommit(p) /\ UNCHANGED <<error, request>>

\* use_access_code is straight-line code run by its own thread: a call that
\* has started keeps executing
SpecFaultFair == SpecFault /\ \A p \in Procs : WF_vars(Proceed(p))

(* ------------------------------ claims --------------------------------- *)

\* the reason (spec section 6) a message stands for
ReasonOf(msg) ==
  CASE msg = V_NOT_FOUND -> "NOT_FOUND"
    [] msg = V_INACTIVE -> "INACTIVE"
    [] msg \in {V_EXHAUSTED, U_EXHAUSTED} -> "EXHAUSTED"
    [] msg \in {V_EXPIRED, U_EXPIRED} -> "EXPIRED"
    [] msg \in {V_VALID, U_SUCCESS} -> "OK"
    [] OTHER -> "UNSPECIFIC"

\* the code is past its expiry time
Expired(r, t) == r.expires_at # None /\ r.expires_at < t

Min(a, b) == IF a < b THEN a ELSE b

\* the success rows of usage_logs that reference code id
SuccessLogs(logs, id) == CopiesIn(UsageLog(id, TRUE), logs)

\* caller p takes a step of a consume call / completes a validate call
ConsumeStep(p) == pc[p] # pc'[p] /\ call'[p].op = "consume"
ValidateStep(p) == pc[p] # pc'[p] /\ call'[p].op = "validate"

\* the completed consume calls that found code id, and the successful ones
ConsumersOf(id) ==
  {p \in Procs : /\ pc[p] = "done" /\ call[p].op = "consume"
                 /\ result[p].record /\ code_record[p][1].id = id}
SucceededOn(id) == {p \in ConsumersOf(id) : result[p].success}
InFlightOn(id) ==
  {p \in Procs : pc[p] \in {"use_update", "use_commit"} /\ code_record[p][1].id = id}

\* C1: whatever the interleaving of consume calls, the stored usage_count of a
\* code never exceeds its max_usage.
C1_UsageNeverExceedsMax ==
  \A id \in DOMAIN access_codes :
    access_codes[id].usage_count <= access_codes[id].max_usage

\* C1 witness: the code is used up while another consume call, which passed
\* its check on the record it loaded, has its UPDATE still ahead.
C1_Witness ==
  \E id \in DOMAIN access_codes, p \in Procs :
    /\ access_codes[id].usage_count = access_codes[id].max_usage
    /\ pc[p] = "use_update" /\ code_record[p][1].id = id

\* C2: when all N consume calls on an active, unexpired code with max_usage M
\* have completed, exactly min(N, M) of them succeeded, every other one
\* returned the exhausted failure, usage_count is the number of successes and,
\* when N >= M, usage_count = max_usage.
C2_ExactCapacity ==
  \A id \in DOMAIN access_codes :
    LET r == access_codes[id]
        n == Cardinality(ConsumersOf(id))
    IN (r.is_active /\ ~Expired(r, now) /\ InFlightOn(id) = {}) =>
         /\ Cardinality(SucceededOn(id)) = Min(n, r.max_usage)
         /\ \A p \in ConsumersOf(id) \ SucceededOn(id) :
               result[p].message = U_EXHAUSTED
         /\ r.usage_count = Cardinality(SucceededOn(id))
         /\ (n >= r.max_usage => r.usage_count = r.max_usage)

\* C2 witness: more consume calls than uses completed on a live code, and one
\* of the failed calls had passed its check (its record still shows a free
\* use): it lost the race at the UPDATE.
C2_Witness ==
  \E id \in DOMAIN access_codes :
    LET r == access_codes[id]
    IN /\ r.is_active /\ ~Expired(r, now) /\ InFlightOn(id) = {}
       /\ Cardinality(ConsumersOf(id)) > r.max_usage
       /\ \E p \in ConsumersOf(id) \ SucceededOn(id) :
             code_record[p][1].usage_count < code_record[p][1].max_usage

\* C3: every step of a consume call either commits usage_count + 1 together
\* with one success UsageLog row of that code, and is the step that returns
\* success, or leaves usage_count and the success rows as they were.
C3_Atomicity ==
  [][\A p \in Procs : ConsumeStep(p) =>
       \A id \in Ids :
         LET before == IF id \in DOMAIN access_codes THEN access_codes[id].usage_count ELSE 0
             after == IF id \in DOMAIN access_codes' THEN access_codes'[id].usage_count ELSE 0
             logged == SuccessLogs(usage_logs', id) - SuccessLogs(usage_logs, id)
         IN \/ /\ after = before + 1 /\ logged = 1
               /\ pc'[p] = "done" /\ result'[p].success
               /\ code_record'[p][1].id = id
            \/ /\ after = before /\ logged = 0
               /\ ~(pc'[p] = "done" /\ result'[p].success /\ code_record'[p][1].id = id)
    ]_vars

\* C3 witness: a consume call has returned success and the store shows its
\* increment and its success row.
C3_Witness ==
  \E p \in Procs :
    /\ pc[p] = "done" /\ call[p].op = "consume" /\ result[p].success
    /\ LET id == code_record[p][1].id
       IN /\ id \in DOMAIN access_codes
          /\ access_codes[id].usage_count >= 1
          /\ SuccessLogs(usage_logs, id) = access_codes[id].usage_count

\* C4 (as claimed): the UPDATE of a consume call increments usage_count only
\* if, at that instant, the stored code is active, not expired and below
\* max_usage; in particular not after an update that deactivated or expired
\* the code was committed.
C4_IncrementOnlyWhenUsable ==
  [][\A p \in Procs :
       (pc[p] = "use_update" /\ pc'[p] = "use_commit") =>
          LET id == code_record[p][1].id
          IN id \in DOMAIN access_codes /\ is_valid(access_codes[id], now)
    ]_vars

\* validate call q repeats the completed validate call p on a code that is
\* stored as p loaded it
RepeatsValidate(q, p) ==
  /\ ValidateStep(q) /\ p # q
  /\ pc[p] = "done" /\ call[p].op = "validate" /\ call[p].token = call'[q].token
  /\ code_record[p] = get_access_code_by_code(call[p].token)

\* C5 (as claimed): a validate call changes neither the codes nor the usage
\* logs, and a validate call repeated on an untouched code returns the result
\* of the earlier call.
C5_ValidateIdempotent ==
  [][\A q \in Procs : ValidateStep(q) =>
       /\ UNCHANGED <<access_codes, usage_logs>>
       /\ \A p \in Procs : RepeatsValidate(q, p) =>
             result'[q] = result[p] /\ code_record'[q] = code_record[p]
    ]_vars

\* C5 (amended): a validate call changes neither the codes nor the usage logs,
\* and a validate call repeated on an untouched code returns the result of the
\* earlier call unless the expiry time of the code has passed in between.
C5_ValidateIdempotentUntilExpiry ==
  [][\A q \in Procs : ValidateStep(q) =>
       /\ UNCHANGED <<access_codes, usage_logs>>
       /\ \A p \in Procs :
             (RepeatsValidate(q, p)
                /\ ~(result[p].success /\ Expired(code_record[p][1], now))) =>
             result'[q] = result[p] /\ code_record'[q] = code_record[p]
    ]_vars

\* C5 witness: two validate calls on a stored code returned the same result
\* and the code is still stored as they loaded it.
C5_Witness ==
  \E p, q \in Procs :
    /\ p # q /\ pc[p] = "done" /\ pc[q] = "done"
    /\ call[p].op = "validate" /\ call[q].op = "validate"
    /\ call[p].token = call[q].token
    /\ result[p].record /\ result[p] = result[q]
    /\ code_record[p] = get_access_code_by_code(call[p].token)
    /\ code_record[q] = code_record[p]

\* C6: the status of a stored code follows the priority inactive > exhausted >
\* expired > active: a deactivated code is inactive whatever its count and
\* expiry, an active code at or above max_usage is exhausted even past its
\* expiry, an active code below max_usage past its expiry is expired, and
\* only the rest is active.
C6_StatusPriority ==
  \A id \in DOMAIN access_codes :
    LET r == access_codes[id]
        full == r.usage_count >= r.max_usage
    IN /\ (~r.is_active => status(r, now) = "inactive")
       /\ (r.is_active /\ full => status(r, now) = "exhausted")
       /\ (r.is_active /\ ~full /\ Expired(r, now) => status(r, now) = "expired")
       /\ (r.is_active /\ ~full /\ ~Expired(r, now) => status(r, now) = "active")

\* C6 witness: an active code is both used up and past its expiry.
C6_Witness ==
  \E id \in DOMAIN access_codes :
    /\ access_codes[id].is_active
    /\ access_codes[id].usage_count >= access_codes[id].max_usage
    /\ Expired(access_codes[id], now)

\* the reason that corresponds to a status
ReasonOfStatus(st) ==
  CASE st = "inactive" -> "INACTIVE"
    [] st = "exhausted" -> "EXHAUSTED"
    [] st = "expired" -> "EXPIRED"
    [] st = "active" -> "OK"

\* C7: validate returns invalid with reason NOT_FOUND for a token no code has;
\* for a stored code it returns valid exactly when the status is active,
\* otherwise invalid with the reason of the status; a valid result carries the
\* record whose remaining usage is max_usage - usage_count.
C7_ValidateResult ==
  [][\A q \in Procs : ValidateStep(q) =>
       LET found == {i \in DOMAIN access_codes :
                       access_codes[i].access_code = call'[q].token}
       IN IF found = {}
          THEN /\ ~result'[q].success /\ ~result'[q].record
               /\ ReasonOf(result'[q].message) = "NOT_FOUND"
          ELSE \A i \in found :
                 LET r == access_codes[i]
                 IN /\ result'[q].success <=> (status(r, now) = "active")
                    /\ ReasonOf(result'[q].message) = ReasonOfStatus(status(r, now))
                    /\ result'[q].success =>
                          /\ result'[q].record
                          /\ remaining_usage(code_record'[q][1])
                                = r.max_usage - r.usage_count
    ]_vars

\* C7 witness: validate calls have returned a valid result with a free use
\* left and an invalid result for a code past its expiry.
C7_Witness ==
  \E p, q \in Procs :
    /\ pc[p] = "done" /\ call[p].op = "validate" /\ result[p].success
    /\ remaining_usage(code_record[p][1]) >= 1
    /\ pc[q] = "done" /\ call[q].op = "validate" /\ ~result[q].success
    /\ result[q].message = V_EXPIRED

\* C8: a step of a consume call other than its successful return, and so every
\* step of a call that fails, changes no code and no usage log, and a failed
\* call leaves no uncommitted write behind.
C8_FailedConsumeChangesNothing ==
  [][\A p \in Procs :
       (ConsumeStep(p) /\ ~(pc'[p] = "done" /\ result'[p].success)) =>
          /\ UNCHANGED <<access_codes, usage_logs>>
          /\ (pc'[p] = "done" => pending'[p] = <<>>)
    ]_vars

\* C8 witness: a consume call on a code past its expiry has failed; the code
\* has uses left, none of them billed by the call.
C8_Witness ==
  \E p \in Procs :
    /\ pc[p] = "done" /\ call[p].op = "consume" /\ ~result[p].success
    /\ result[p].message = U_EXPIRED
    /\ LET id == code_record[p][1].id
       IN /\ access_codes[id].usage_count < access_codes[id].max_usage
          /\ SuccessLogs(usage_logs, id) = access_codes[id].usage_count

\* C9 (as claimed): a consume call that fails on a stored code reports the
\* reason validate reports for that code at that moment.
C9_ConsumeReasonMatchesValidate ==
  [][\A p \in Procs :
       (ConsumeStep(p) /\ pc'[p] = "done" /\ ~result'[p].success /\ result'[p].record) =>
          LET id == code_record'[p][1].id
          IN id \in DOMAIN access_codes =>
               ReasonOf(result'[p].message)
                 = ReasonOf(ValidateMessage(access_codes[id], now))
    ]_vars

\* C10: with calls made one after the other on a fresh, active, unexpired code
\* with max_usage M, after k completed consume calls min(k, M) have succeeded
\* and usage_count = min(k, M); from the M-th on the status is exhausted, and
\* every failed call returned the exhausted failure on a fully used record.
C10_SequentialExhaustion ==
  \A id \in DOMAIN access_codes :
    LET r == access_codes[id]
        k == Cardinality(ConsumersOf(id))
    IN (r.is_active /\ ~Expired(r, now)) =>
         /\ Cardinality(SucceededOn(id)) = Min(k, r.max_usage)
         /\ r.usage_count = Min(k, r.max_usage)
         /\ (k >= r.max_usage => status(r, now) = "exhausted")
         /\ \A p \in ConsumersOf(id) \ SucceededOn(id) :
               /\ result[p].message = U_EXHAUSTED
               /\ code_record[p][1].usage_count = r.max_usage

\* C10 witness: more calls than uses have completed on a live code, the last
\* of them failed.
C10_Witness ==
  \E id \in DOMAIN access_codes :
    LET r == access_codes[id]
    IN /\ r.is_active /\ ~Expired(r, now)
       /\ Cardinality(ConsumersOf(id)) > r.max_usage
       /\ r.usage_count = r.max_usage
       /\ ConsumersOf(id) \ SucceededOn(id) # {}

\* caller p's consume call catches a store error after its UPDATE was executed
FaultAfterIncrement(p) == pc[p] = "use_commit" /\ error[p] = "" /\ error'[p] # ""

LogsOf(logs, id) == [ok \in BOOLEAN |-> CopiesIn(UsageLog(id, ok), logs)]

\* C12: a step of a consume call on one token changes no column and no usage
\* log of a code with another token, and its outcome is fixed by the code of
\* its own token alone: not found when no code has the token, rejected at the
\* check exactly when that code is not valid, rejected as exhausted at the
\* UPDATE exactly when that code has no use left, success otherwise.
C12_TokensIndependent ==
  [][\A p \in Procs : ConsumeStep(p) =>
       LET own == {i \in DOMAIN access_codes :
                     access_codes[i].access_code = call'[p].token}
       IN /\ \A j \in DOMAIN access_codes \ own :
               /\ access_codes'[j] = access_codes[j]
               /\ LogsOf(usage_logs', j) = LogsOf(usage_logs, j)
          /\ pc[p] = "idle" /\ own = {} =>
               pc'[p] = "done" /\ result'[p].message = U_NOT_FOUND
          /\ \A i \in own :
               /\ pc[p] = "idle" =>
                    (pc'[p] = "use_update" <=> is_valid(access_codes[i], now))
               /\ pc[p] = "use_update" =>
                    IF access_codes[i].usage_count < access_codes[i].max_usage
                    THEN pc'[p] = "use_commit"
                    ELSE pc'[p] = "done" /\ result'[p].message = U_EXHAUSTED
               /\ pc[p] = "use_commit" => pc'[p] = "done" /\ result'[p].success
    ]_vars

\* C12 witness: a consume call on one code succeeded and a consume call on the
\* other code failed; the two codes differ in count, limit and activation.
C12_Witness ==
  \E p, q \in Procs :
    /\ pc[p] = "done" /\ call[p].op = "consume" /\ result[p].success
    /\ pc[q] = "done" /\ call[q].op = "consume" /\ ~result[q].success
    /\ result[q].record /\ call[p].token # call[q].token
    /\ LET a == access_codes[code_record[p][1].id]
           b == access_codes[code_record[q][1].id]
       IN /\ a.usage_count = 1 /\ b.usage_count = 0
          /\ a.max_usage # b.max_usage /\ a.is_active /\ ~b.is_active

\* C13 (as claimed): in every reachable state every stored code has
\* 0 <= usage_count <= max_usage and max_usage > 0, also after updates that
\* carry a new max_usage.
C13_CountWithinLimit ==
  \A id \in DOMAIN access_codes :
    /\ 0 <= access_codes[id].usage_count
    /\ access_codes[id].usage_count <= access_codes[id].max_usage
    /\ access_codes[id].max_usage > 0

Exhausted(r) == r.usage_count >= r.max_usage

C18_TerminatesAndTellsStoreErrors ==
  /\ \A p \in Procs : (pc[p] \in {"use_update", "use_commit"}) ~> (pc[p] = "done")
  /\ [](\A p \in Procs :
          (error[p] # "" /\ call[p].op = "consume") =>
             /\ pc[p] = "done" /\ ~result[p].success
             /\ result[p].message = U_FAILED(error[p])
             /\ result[p].message \notin {U_EXHAUSTED, U_NOT_FOUND, U_EXPIRED, U_INVALID}
             /\ ReasonOf(result[p].message) # "EXHAUSTED")

\* C18 witness: a consume call ended on the time-out of its wait for the row
\* lock while the caller that takes the last use still holds the lock.
C18_Witness ==
  \E p, q \in Procs :
    /\ pc[p] = "done" /\ call[p].op = "consume" /\ error[p] = E_LOCKED
    /\ pc[q] = "use_commit" /\ pending[q] # <<>>
    /\ pending[q][1].id = code_record[p][1].id
    /\ pending[q][1].usage_count = access_codes[pending[q][1].id].max_usage

\* the messages of the failed results of validate_access_code and use_access_code
FailureMessages ==
  {V_NOT_FOUND, V_INACTIVE, V_EXHAUSTED, V_EXPIRED, V_INVALID,
   U_NOT_FOUND, U_EXHAUSTED, U_EXPIRED, U_INVALID}

\* C19: a validate or consume call never ends by raising: every step leaves
\* the caller inside the call or at a returned result, and a call on an unknown
\* token or on a code that is inactive, expired or exhausted returns, in that
\* step, success = false with the message of a reason (and the record exactly
\* when the code exists), whatever the state of the code; only a store error
\* replaces it, by the failure result of the except branch.
C19_OutcomesAreValues ==
  [][\A p \in Procs :
       /\ pc'[p] \in {"idle", "use_update", "use_commit", "done"}
       /\ (pc'[p] = "done" /\ ~result'[p].success) =>
             result'[p].message \in FailureMessages \cup {V_FAILED, U_FAILED(error'[p])}
       /\ (pc[p] = "idle" /\ (ValidateStep(p) \/ ConsumeStep(p)) /\ error'[p] = "") =>
             LET found == {i \in DOMAIN access_codes :
                             access_codes[i].access_code = call'[p].token}
             IN /\ found = {} =>
                     /\ pc'[p] = "done" /\ ~result'[p].success /\ ~result'[p].record
                     /\ ReasonOf(result'[p].message) = "NOT_FOUND"
                /\ \A i \in found : status(access_codes[i], now) # "active" =>
                     /\ pc'[p] = "done" /\ ~result'[p].success /\ result'[p].record
                     /\ result'[p].message \in FailureMessages
    ]_vars

\* C19 witness: a validate call on the deactivated code and a consume call on
\* the same code past its expiry have both returned a failed result with the
\* record, and neither caught an error.
C19_Witness ==
  \E p, q \in Procs :
    /\ pc[p] = "done" /\ call[p].op = "validate" /\ error[p] = ""
    /\ ~result[p].success /\ result[p].record /\ result[p].message = V_INACTIVE
    /\ pc[q] = "done" /\ call[q].op = "consume" /\ error[q] = ""
    /\ ~result[q].success /\ result[q].record /\ result[q].message = U_EXPIRED

\* C15: a v1 chart request whose consume call failed is answered with HTTP 400
\* and the message of the consume call as detail, also when the chart was
\* rendered; a response 200 is sent only after the one consume call of the
\* request returned success.
C15_ConsumeFailureFailsRequest ==
  \A p \in Procs : request[p].phase = "responded" =>
    /\ (request[p].consumed > 0 /\ ~result[p].success) =>
          request[p].status_code = 400 /\ request[p].detail = result[p].message
    /\ request[p].status_code = 200 =>
          /\ request[p].consumed > 0 /\ call[p].op = "consume"
          /\ result[p].success

\* C15 witness: a request rendered its chart, lost the last use to another
\* request and was answered 400 with the exhausted message.
C15_Witness ==
  \E p \in Procs :
    /\ request[p].phase = "responded" /\ request[p].rendered
    /\ request[p].charts = 1 /\ request[p].consumed = 1
    /\ request[p].status_code = 400 /\ request[p].detail = U_EXHAUSTED
    /\ request[p].billed = 0

\* C16: a v1 chart request calls use_access_code at most once, the session of
\* the request commits at most the increment of that call, and a request
\* answered 200 has committed exactly one increment of the usage_count of its
\* code, whatever the number of charts in its response.
C16_OneConsumePerRequest ==
  \A p \in Procs :
    /\ request[p].consumed <= 1
    /\ request[p].billed <= request[p].consumed
    /\ (request[p].phase = "responded" /\ request[p].status_code = 200) =>
          /\ request[p].billed = 1
          /\ access_codes[code_record[p][1].id].usage_count >= 1
          /\ SuccessLogs(usage_logs, code_record[p][1].id) >= 1

\* C16 witness: two requests were answered 200, one with a chart and one with
\* none, and the code they share counts two uses.
C16_Witness ==
  \E p, q \in Procs :
    /\ request[p].status_code = 200 /\ request[p].charts = 1
    /\ request[q].status_code = 200 /\ request[q].charts = 0
    /\ code_record[p][1].id = code_record[q][1].id
    /\ access_codes[code_record[p][1].id].usage_count = 2

\* C17 (as claimed): a v1 chart request calls use_access_code only when its
\* rendering succeeded: a request whose chart generator returned success=false,
\* or which rendered none of the selected types, calls no consume and commits
\* no increment.
C17_ConsumeOnlyAfterRendering ==
  \A p \in Procs :
    ~request[p].rendered => request[p].consumed = 0 /\ request[p].billed = 0

\* C21 (as claimed): an update that changes is_active leaves usage_count,
\* max_usage and expires_at as they are, so that a deactivation followed by a
\* reactivation restores the code and the result of validate; and while the
\* stored code is inactive every validate on it fails and no consume on it
\* returns success.
C21_DeactivationReversible ==
  [][\A id \in DOMAIN access_codes :
       LET r == access_codes[id]
           r2 == access_codes'[id]
       IN /\ r2.is_active # r.is_active =>
               /\ r2 = [r EXCEPT !.is_active = ~r.is_active]
               /\ ValidateMessage([r2 EXCEPT !.is_active = r.is_active], now)
                     = ValidateMessage(r, now)
          /\ ~r.is_active =>
               \A p \in Procs :
                 /\ (ValidateStep(p) /\ call'[p].token = r.access_code) =>
                       ~result'[p].success
                 /\ (ConsumeStep(p) /\ call'[p].token = r.access_code
                       /\ pc'[p] = "done") => ~result'[p].success
    ]_vars

\* C22 (as claimed): in every reachable state every usage log references a
\* stored code; in particular, once delete_access_code has returned success no
\* usage log references the deleted code.
C22_LogsReferenceStoredCodes ==
  \A row \in DOMAIN usage_logs : row.access_code_id \in DOMAIN access_codes

\* C23: the code stored by create_access_code has usage_count = 0 and
\* is_active = true, and unless its expiry is already past it is valid: its
\* status is active, validate_access_code answers valid for it and its
\* remaining usage is its max_usage.
C23_CreatedCodeIsFresh ==
  [][\A id \in DOMAIN access_codes' \ DOMAIN access_codes :
       LET r == access_codes'[id]
       IN /\ r.usage_count = 0 /\ r.is_active /\ r.max_usage > 0
          /\ ~Expired(r, now) =>
               /\ is_valid(r, now) /\ status(r, now) = "active"
               /\ ValidateMessage(r, now) = V_VALID
               /\ remaining_usage(r) = r.max_usage
    ]_vars

\* C23 witness: a validate call has answered valid for the code as created:
\* the record it loaded has no use and the full remaining usage.
C23_Witness ==
  \E p \in Procs :
    /\ pc[p] = "done" /\ call[p].op = "validate" /\ result[p].success
    /\ code_record[p][1].usage_count = 0
    /\ remaining_usage(code_record[p][1]) = code_record[p][1].max_usage
    /\ Loaded(code_record[p][1].id) = code_record[p][1]

\* C24: no two stored codes have the same token, and a create_access_code
\* call with the token of a stored code raises and changes no code and no
\* usage log.
C24_TokensUnique ==
  [][/\ \A i, j \in DOMAIN access_codes' :
          i # j => access_codes'[i].access_code # access_codes'[j].access_code
     /\ \A p \in Procs :
          (pc[p] = "idle" /\ call'[p].op = "create" /\ pc'[p] # "idle") =>
             /\ pc'[p] = "raised" /\ error'[p] = E_UNIQUE
             /\ access_codes' = access_codes /\ usage_logs' = usage_logs
             /\ nextId' = nextId
    ]_vars

\* C24 witness: two codes are stored, and a create_access_code call with the
\* token of the one that was used has raised; the code still counts its use.
C24_Witness ==
  \E p \in Procs, id \in DOMAIN access_codes :
    /\ pc[p] = "raised" /\ call[p].op = "create" /\ error[p] = E_UNIQUE
    /\ access_codes[id].access_code = call[p].token
    /\ access_codes[id].usage_count = 1
    /\ DOMAIN access_codes = TwoIds

\* the requests of the chart handlers of main.py that answered 200 with at
\* least one chart for the code id
LegacySuccesses(id) ==
  {p \in Procs : /\ request[p].handler \in {"/api/generate-chart",
                                             "/api/generate-chart-from-data",
                                             "/api/generate-selected-charts"}
                 /\ request[p].phase = "responded" /\ request[p].status_code = 200
                 /\ request[p].charts > 0
                 /\ code_record[p] # <<>> /\ code_record[p][1].id = id}

\* C25: through the handlers of main.py, which bill with increment_usage and a
\* commit, the requests on a code never yield more successful responses than
\* the code had uses left, and the usage_count of a code created at 0 equals
\* the number of successful responses: no use is billed by an unconditional
\* read-then-write
C25_LegacyBillingIsConditional ==
  \A id \in DOMAIN access_codes :
    /\ Cardinality(LegacySuccesses(id)) <= access_codes[id].max_usage
    /\ access_codes[id].usage_count = Cardinality(LegacySuccesses(id))

\* C26: for every code the number of UsageLog rows with success = true equals
\* the number of increments, which is the usage_count of a code created at 0:
\* no operation, save_uploaded_file included, records a success without an
\* increment
C26_SuccessLogsMatchIncrements ==
  \A id \in DOMAIN access_codes :
    SuccessLogs(usage_logs, id) = access_codes[id].usage_count

\* C27: the remaining_usage of a successful response of the v1 handlers
\* generate_chart and generate_selected_charts equals max_usage - usage_count
\* of the row as stored right after the consume of that request, and is never
\* negative
C27_ResponseRemainingUsage ==
  \A p \in Procs :
    request[p].handler \in {"generate_chart", "generate_selected_charts"}
      /\ request[p].phase = "responded" /\ request[p].status_code = 200
    => /\ request[p].remaining_usage
            = code_record[p][1].max_usage - code_record[p][1].usage_count
       /\ request[p].remaining_usage >= 0

\* p and q are two generate_chart requests of the v1 API on the code id that
\* both passed the validation, rendered, called use_access_code and answered,
\* while no other request consumed the code, which did not expire
BothAnswered(p, q, id) ==
  /\ p # q
  /\ \A r \in {p, q} :
        /\ request[r].handler = "generate_chart" /\ request[r].phase = "responded"
        /\ request[r].rendered /\ request[r].consumed = 1
        /\ call[r].token = access_codes[id].access_code
  /\ \A r \in Procs \ {p, q} :
        request[r].consumed = 0 \/ call[r].token # access_codes[id].access_code
  /\ ~Expired(access_codes[id], now)

\* C28: of two concurrent generate_chart requests of the v1 API on a code with
\* exactly one remaining use, which may both pass the validation and render,
\* exactly one answers with success and a chart, the other fails as exhausted,
\* and the final usage_count equals max_usage
C28_OneOfTwoRequestsSucceeds ==
  \A id \in DOMAIN access_codes : \A p, q \in Procs :
    BothAnswered(p, q, id) /\ access_codes[id].max_usage = 1
    => /\ Cardinality({r \in {p, q} : request[r].status_code = 200
                                       /\ request[r].charts = 1}) = 1
       /\ Cardinality({r \in {p, q} : request[r].status_code = 400
                                       /\ request[r].detail = U_EXHAUSTED}) = 1
       /\ access_codes[id].usage_count = access_codes[id].max_usage

\* both requests passed the validation while the code had its one use, and both
\* have answered
C28_Witness ==
  \E id \in DOMAIN access_codes : \E p, q \in Procs :
    /\ BothAnswered(p, q, id) /\ access_codes[id].max_usage = 1
    /\ \E r \in {p, q} : request[r].status_code = 400 /\ code_record[r][1].usage_count = 0

\* C29: a consume that is abandoned after its conditional UPDATE and before
\* its commit is rolled back as a whole: the committed usage_count and the
\* usage logs are unchanged and the UPDATE is gone; and while the UPDATE of a
\* caller is uncommitted, every record another session loads shows the
\* committed usage_count, not the incremented one
C29_AbandonedConsumeRollsBack ==
  [][\A p \in Procs :
       /\ pc[p] = "use_commit" /\ pc'[p] = "closed"
          => /\ access_codes' = access_codes
             /\ usage_logs' = usage_logs
             /\ pending'[p] = <<>>
       /\ pending[p] # <<>>
          => \A q \in Procs \ {p} :
               code_record'[q] # code_record[q] /\ code_record'[q] # <<>>
                 /\ code_record'[q][1].id = pending[p][1].id
               => code_record'[q][1].usage_count = pending[p][1].usage_count - 1]_vars

\* a caller abandoned its consume of the only use of a code, and another caller
\* then consumed that use
C29_Witness ==
  \E p, q \in Procs : \E id \in DOMAIN access_codes :
    /\ pc[p] = "closed" /\ call[p].token = access_codes[id].access_code
    /\ pc[q] = "done" /\ call[q] = [op |-> "consume", token |-> call[p].token]
    /\ result[q].success
    /\ access_codes[id].max_usage = 1 /\ access_codes[id].usage_count = 1
    /\ SuccessLogs(usage_logs, id) = 1

\* C30: for every combination of is_active, usage_count, max_usage,
\* expires_at and time, is_valid() holds exactly when status is "active" and
\* can_use() equals is_valid(); hence neither validate_access_code nor
\* use_access_code answers with the generic message for a code whose status
\* is exhausted or expired
C30_ValidIffActive ==
  /\ \A id \in DOMAIN access_codes :
        /\ is_valid(access_codes[id], now) <=> status(access_codes[id], now) = "active"
        /\ can_use(access_codes[id], now) <=> is_valid(access_codes[id], now)
  /\ \A p \in Procs :
        pc[p] = "done" /\ call[p].op \in {"validate", "consume"} /\ code_record[p] # <<>>
        => /\ is_valid(code_record[p][1], now) <=> status(code_record[p][1], now) = "active"
           /\ can_use(code_record[p][1], now) <=> is_valid(code_record[p][1], now)
           /\ ~result[p].success
                 /\ status(code_record[p][1], now) \in {"exhausted", "expired"}
              => result[p].message \notin {V_INVALID, U_INVALID}

\* a validation and a consume were answered for a code that is above its
\* limit, or expired
C30_Witness ==
  \E p, q \in Procs :
    /\ pc[p] = "done" /\ call[p].op = "validate" /\ code_record[p] # <<>>
    /\ pc[q] = "done" /\ call[q].op = "consume" /\ code_record[q] # <<>>
    /\ status(code_record[p][1], now) \in {"exhausted", "expired"}
    /\ status(code_record[q][1], now) \in {"exhausted", "expired"}
    /\ ~result[p].success /\ ~result[q].success

====
